---- MODULE Spec2Model ----
(***************************************************************************)
(* Model of the LeakDetector class of swarm-leak-detector (src/index.js):  *)
(* the pattern table, the regular-expression matching the three public     *)
(* operations rely on, and scan / hasLeak / redact themselves.             *)
(*                                                                         *)
(* A JavaScript string is a sequence of one-character strings.  A regular  *)
(* expression is a sequence of items matched by backtracking in priority   *)
(* order, as the JavaScript engine does.                                   *)
(***************************************************************************)
EXTENDS Integers, Sequences, FiniteSets, TLC

\* ------------------------------------------------------------------------
\* Bounds of the exploration
\* ------------------------------------------------------------------------
\* most copies of one fixture literal put into an input text
MaxCopies == 2
\* most parts a composed input text is put together from
MaxParts == 2

\* ------------------------------------------------------------------------
\* Characters and character classes
\* ------------------------------------------------------------------------
LowerSeq == <<"a", "b", "c", "d", "e", "f", "g", "h", "i", "j", "k", "l", "m", "n", "o", "p", "q", "r", "s", "t", "u", "v", "w", "x", "y", "z">>
UpperSeq == <<"A", "B", "C", "D", "E", "F", "G", "H", "I", "J", "K", "L", "M", "N", "O", "P", "Q", "R", "S", "T", "U", "V", "W", "X", "Y", "Z">>
DigitSeq == <<"0", "1", "2", "3", "4", "5", "6", "7", "8", "9">>

Range(s) == {s[i] : i \in DOMAIN s}

Lower == Range(LowerSeq)
Upper == Range(UpperSeq)
Digit == Range(DigitSeq)
Alnum == Lower \cup Upper \cup Digit
\* \s, restricted to the white space the inputs use
Space == {" ", "\t", "\n"}
\* line terminators: what '.' refuses and what ^ and $ look for under /m
LineTerm == {"\n"}
Punct == {"-", "_", ".", "/", "+", "=", ":", "\"", "'", "*", "@", "[", "]", "(", ")", "!", ","}
Alphabet == Alnum \cup Space \cup Punct
\* \w, the class \b is defined by
WordChar == Alnum \cup {"_"}
\* '.'
Dot == Alphabet \ LineTerm

\* canonicalisation of the /i flag on the ASCII letters
ToUpper(c) == IF c \in Lower THEN UpperSeq[CHOOSE i \in DOMAIN LowerSeq : LowerSeq[i] = c] ELSE c
ToLower(c) == IF c \in Upper THEN LowerSeq[CHOOSE i \in DOMAIN UpperSeq : UpperSeq[i] = c] ELSE c
\* the characters a class accepts under /i
IgnoreCase(set) == set \cup {ToUpper(c) : c \in set} \cup {ToLower(c) : c \in set}

\* ------------------------------------------------------------------------
\* Regular expressions as data
\* ------------------------------------------------------------------------
\* set{min,max}: a greedy quantified class; max = -1 stands for no upper limit
Cls(set, min, max) == <<[kind |-> "cls", set |-> set, min |-> min, max |-> max, alts |-> <<>>]>>
\* a literal string, one class item per character
Lit(chars) == [i \in DOMAIN chars |-> [kind |-> "cls", set |-> {chars[i]}, min |-> 1, max |-> 1, alts |-> <<>>]]
\* the same literal under /i
LitI(chars) == [i \in DOMAIN chars |-> [kind |-> "cls", set |-> IgnoreCase({chars[i]}), min |-> 1, max |-> 1, alts |-> <<>>]]
\* (a|b|c): the alternatives are tried in order
Alt(alts) == <<[kind |-> "alt", set |-> {}, min |-> 1, max |-> 1, alts |-> alts]>>
\* (a|b|c)?: the alternatives in order, then the empty match
Opt(alts) == <<[kind |-> "alt", set |-> {}, min |-> 0, max |-> 1, alts |-> alts]>>
\* (?=r)
Look(r) == <<[kind |-> "look", set |-> {}, min |-> 0, max |-> 0, alts |-> <<r>>]>>
\* ^ and $ under /m, and \b
Bol == <<[kind |-> "bol", set |-> {}, min |-> 0, max |-> 0, alts |-> <<>>]>>
Eol == <<[kind |-> "eol", set |-> {}, min |-> 0, max |-> 0, alts |-> <<>>]>>
WordB == <<[kind |-> "wb", set |-> {}, min |-> 0, max |-> 0, alts |-> <<>>]>>

\* ------------------------------------------------------------------------
\* Matching (positions are 0-based offsets into the text, as in JavaScript)
\* ------------------------------------------------------------------------
Min(S) == CHOOSE x \in S : \A y \in S : x <= y

Max(S) == CHOOSE x \in S : \A y \in S : x >= y

\* how many characters from offset i on belong to set, at most max of them
\* (max = -1: no limit)
RunLen(text, i, set, max) ==
  LET last == IF max >= 0 /\ i + max < Len(text) THEN i + max ELSE Len(text)
      stops == {k \in i..(last - 1) : text[k + 1] \notin set}
  IN  (IF stops = {} THEN last ELSE Min(stops)) - i

IsWord(text, k) == k >= 0 /\ k < Len(text) /\ text[k + 1] \in WordChar

RECURSIVE MatchEnd(_, _, _), TryLen(_, _, _, _, _), TryAlts(_, _, _, _)
\* the offset at which the first successful match, in backtracking priority
\* order, of the items at offset i ends; -1 when the items do not match at i
MatchEnd(items, text, i) ==
  IF items = <<>> THEN i
  ELSE LET it == Head(items)
           rest == Tail(items)
       IN CASE it.kind = "cls" ->
                 LET run == RunLen(text, i, it.set, it.max)
                 IN  IF run < it.min THEN -1 ELSE TryLen(rest, text, i, run, it.min)
            [] it.kind = "alt" ->
                 LET r == TryAlts(it.alts, rest, text, i)
                 IN  IF r # -1 \/ it.min = 1 THEN r ELSE MatchEnd(rest, text, i)
            [] it.kind = "look" ->
                 IF MatchEnd(it.alts[1], text, i) # -1 THEN MatchEnd(rest, text, i) ELSE -1
            [] it.kind = "bol" ->
                 IF i = 0 \/ text[i] \in LineTerm THEN MatchEnd(rest, text, i) ELSE -1
            [] it.kind = "eol" ->
                 IF i = Len(text) \/ text[i + 1] \in LineTerm THEN MatchEnd(rest, text, i) ELSE -1
            [] it.kind = "wb" ->
                 IF IsWord(text, i - 1) # IsWord(text, i) THEN MatchEnd(rest, text, i) ELSE -1

\* a greedy quantifier gives characters back one at a time, from len down to
\* min: the longest length after which the rest matches comes first
TryLen(rest, text, i, len, min) ==
  IF len = min THEN MatchEnd(rest, text, i + len)
  ELSE LET ends == {<<n, MatchEnd(rest, text, i + n)>> : n \in min..len}
           ok == {p \in ends : p[2] # -1}
       IN  IF ok = {} THEN -1 ELSE (CHOOSE p \in ok : \A q \in ok : p[1] >= q[1])[2]

\* alternatives in order, each followed by the rest of the expression
TryAlts(alts, rest, text, i) ==
  IF alts = <<>> THEN -1
  ELSE LET r == MatchEnd(Head(alts) \o rest, text, i)
       IN  IF r # -1 THEN r ELSE TryAlts(Tail(alts), rest, text, i)

\* ------------------------------------------------------------------------
\* The pattern table
\* ------------------------------------------------------------------------
HexLower == {"a", "b", "c", "d", "e", "f"} \cup Digit
\* [a-zA-Z0-9_-]
Token == Alnum \cup {"_", "-"}
Quote == {"\"", "'"}
\* [^\s"']
NotSpaceQuote == Alphabet \ (Space \cup Quote)

\* a rule of the table: the regex is its items and its /g flag
Rule(name, items, severity) ==
  [name |-> name, regex |-> [items |-> items, global |-> TRUE], severity |-> severity]

\* (password|passwd|pwd) and the like, under /i
Words(ws) == [k \in DOMAIN ws |-> LitI(ws[k])]
\* \s*(?:is|was|=|:)\s*["']?
Assign == Cls(Space, 0, -1) \o Alt(<<LitI(<<"i", "s">>), LitI(<<"w", "a", "s">>), Lit(<<"=">>), Lit(<<":">>)>>)
          \o Cls(Space, 0, -1) \o Cls(Quote, 0, 1)

\* the built-in rules of the constructor, in table order
BuiltIn == <<
  Rule(<<"o", "p", "e", "n", "r", "o", "u", "t", "e", "r", "_", "k", "e", "y">>, Lit(<<"s", "k", "-", "o", "r", "-", "v", "1", "-">>) \o Cls(HexLower, 64, 64), "CRITICAL"),
  Rule(<<"a", "n", "t", "h", "r", "o", "p", "i", "c", "_", "k", "e", "y">>, Lit(<<"s", "k", "-", "a", "n", "t", "-">>) \o Cls(Token, 80, -1), "CRITICAL"),
  Rule(<<"p", "e", "r", "p", "l", "e", "x", "i", "t", "y", "_", "k", "e", "y">>, Lit(<<"p", "p", "l", "x", "-">>) \o Cls(Alnum, 30, -1), "CRITICAL"),
  Rule(<<"x", "a", "i", "_", "k", "e", "y">>, Lit(<<"x", "a", "i", "-">>) \o Cls(Alnum, 20, -1), "CRITICAL"),
  Rule(<<"r", "e", "p", "l", "i", "c", "a", "t", "e", "_", "t", "o", "k", "e", "n">>, Lit(<<"r", "8", "_">>) \o Cls(Alnum, 36, 36), "CRITICAL"),
  Rule(<<"o", "p", "e", "n", "a", "i", "_", "k", "e", "y">>, Lit(<<"s", "k", "-">>) \o Opt(<<Lit(<<"p", "r", "o", "j", "-">>)>>) \o Cls(Token, 48, -1), "CRITICAL"),
  Rule(<<"e", "l", "e", "v", "e", "n", "l", "a", "b", "s", "_", "k", "e", "y">>, Cls(IgnoreCase(HexLower), 32, 32)
         \o Look(Cls(Dot, 0, -1) \o LitI(<<"e", "l", "e", "v", "e", "n", "l", "a", "b", "s">>)), "CRITICAL"),
  Rule(<<"r", "e", "s", "e", "n", "d", "_", "k", "e", "y">>, WordB \o Lit(<<"r", "e", "_">>) \o Cls(WordChar, 20, -1) \o WordB, "CRITICAL"),
  Rule(<<"t", "e", "l", "e", "g", "r", "a", "m", "_", "b", "o", "t", "_", "t", "o", "k", "e", "n">>, Cls(Digit, 8, 10) \o Lit(<<":">>) \o Cls(Token, 35, 35), "CRITICAL"),
  Rule(<<"s", "t", "r", "i", "p", "e", "_", "s", "e", "c", "r", "e", "t", "_", "k", "e", "y">>, Cls({"s", "r"}, 1, 1) \o Lit(<<"k", "_">>)
         \o Alt(<<Lit(<<"l", "i", "v", "e">>), Lit(<<"t", "e", "s", "t">>)>>) \o Lit(<<"_">>) \o Cls(Alnum, 20, -1), "CRITICAL"),
  Rule(<<"g", "o", "o", "g", "l", "e", "_", "o", "a", "u", "t", "h">>, Lit(<<"y", "a", "2", "9", ".">>) \o Cls(Token, 50, -1), "CRITICAL"),
  Rule(<<"g", "o", "o", "g", "l", "e", "_", "r", "e", "f", "r", "e", "s", "h">>, Lit(<<"1", "/", "/">>) \o Cls(Token, 40, -1), "CRITICAL"),
  Rule(<<"g", "i", "t", "h", "u", "b", "_", "t", "o", "k", "e", "n">>, Lit(<<"g", "h">>) \o Cls({"p", "s"}, 1, 1) \o Lit(<<"_">>) \o Cls(Alnum, 36, -1), "CRITICAL"),
  Rule(<<"t", "a", "i", "l", "s", "c", "a", "l", "e", "_", "k", "e", "y">>, Lit(<<"t", "s", "k", "e", "y", "-">>) \o Cls(Alnum, 1, -1) \o Lit(<<"-">>) \o Cls(Alnum, 1, -1), "CRITICAL"),
  Rule(<<"b", "e", "a", "r", "e", "r", "_", "t", "o", "k", "e", "n">>, Lit(<<"B", "e", "a", "r", "e", "r">>) \o Cls(Space, 1, -1) \o Cls(Token \cup {"."}, 20, -1), "HIGH"),
  Rule(<<"b", "a", "s", "i", "c", "_", "a", "u", "t", "h">>, Lit(<<"B", "a", "s", "i", "c">>) \o Cls(Space, 1, -1) \o Cls(Alnum \cup {"+", "/", "="}, 20, -1), "HIGH"),
  Rule(<<"a", "p", "i", "_", "k", "e", "y", "_", "a", "s", "s", "i", "g", "n", "m", "e", "n", "t">>,
         Alt(<<LitI(<<"a", "p", "i">>) \o Cls({"_", "-"}, 0, 1) \o LitI(<<"k", "e", "y">>), LitI(<<"a", "p", "i", "k", "e", "y">>),
               LitI(<<"a", "p", "i", "_", "s", "e", "c", "r", "e", "t">>), LitI(<<"a", "p", "i", "s", "e", "c", "r", "e", "t">>)>>)
         \o Cls(Space, 0, -1) \o Cls({"=", ":"}, 1, 1) \o Cls(Space, 0, -1)
         \o Cls(Quote, 0, 1) \o Cls(Token, 16, -1) \o Cls(Quote, 0, 1), "HIGH"),
  Rule(<<"p", "r", "i", "v", "a", "t", "e", "_", "k", "e", "y">>, Lit(<<"-", "-", "-", "-", "-", "B", "E", "G", "I", "N">>) \o Cls(Space, 1, -1)
         \o Opt(<<Lit(<<"R", "S", "A">>) \o Cls(Space, 1, -1), Lit(<<"E", "C">>) \o Cls(Space, 1, -1),
                  Lit(<<"O", "P", "E", "N", "S", "S", "H">>) \o Cls(Space, 1, -1)>>)
         \o Lit(<<"P", "R", "I", "V", "A", "T", "E">>) \o Cls(Space, 1, -1) \o Lit(<<"K", "E", "Y", "-", "-", "-", "-", "-">>), "CRITICAL"),
  Rule(<<"a", "g", "e", "_", "s", "e", "c", "r", "e", "t", "_", "k", "e", "y">>, Lit(<<"A", "G", "E", "-", "S", "E", "C", "R", "E", "T", "-", "K", "E", "Y", "-">>) \o Cls(Upper \cup Digit, 59, 59), "CRITICAL"),
  Rule(<<"c", "o", "n", "n", "e", "c", "t", "i", "o", "n", "_", "s", "t", "r", "i", "n", "g">>,
         Alt(Words(<<<<"m", "o", "n", "g", "o", "d", "b">>, <<"p", "o", "s", "t", "g", "r", "e", "s">>, <<"m", "y", "s", "q", "l">>, <<"r", "e", "d", "i", "s">>>>)) \o Lit(<<":", "/", "/">>)
         \o Cls(NotSpaceQuote, 10, -1), "HIGH"),
  Rule(<<"p", "a", "s", "s", "w", "o", "r", "d", "_", "a", "s", "s", "i", "g", "n", "m", "e", "n", "t">>,
         Alt(Words(<<<<"p", "a", "s", "s", "w", "o", "r", "d">>, <<"p", "a", "s", "s", "w", "d">>, <<"p", "w", "d">>>>)) \o Assign
         \o Cls(NotSpaceQuote, 8, -1) \o Cls(Quote, 0, 1), "MEDIUM"),
  Rule(<<"s", "e", "c", "r", "e", "t", "_", "a", "s", "s", "i", "g", "n", "m", "e", "n", "t">>,
         Alt(Words(<<<<"s", "e", "c", "r", "e", "t">>, <<"t", "o", "k", "e", "n">>, <<"c", "r", "e", "d", "e", "n", "t", "i", "a", "l">>>>)) \o Assign
         \o Cls(IgnoreCase(Token), 16, -1) \o Cls(Quote, 0, 1), "MEDIUM"),
  Rule(<<"e", "n", "v", "_", "v", "a", "r", "_", "d", "u", "m", "p">>, Bol \o Cls(Upper \cup {"_"}, 4, -1) \o Lit(<<"=">>) \o Cls(Dot, 10, -1) \o Eol, "MEDIUM"),
  Rule(<<"h", "e", "x", "_", "s", "e", "c", "r", "e", "t">>, Cls(Quote, 1, 1) \o Cls(HexLower, 32, -1) \o Cls(Quote, 1, 1), "LOW")
>>

\* new LeakDetector(customPatterns): the custom rules come after the built-in ones
LeakDetector(customPatterns) == [patterns |-> BuiltIn \o customPatterns]

NumRules == Len(BuiltIn)

\* ------------------------------------------------------------------------
\* JavaScript values and the String / RegExp primitives the class uses
\* ------------------------------------------------------------------------
Null == [type |-> "null"]
Undefined == [type |-> "undefined"]
Str(chars) == [type |-> "string", chars |-> chars]
Num(n) == [type |-> "number", num |-> n]
Bool(b) == [type |-> "boolean", bool |-> b]
Obj == [type |-> "object"]

\* !text is false exactly for the truthy values
Truthy(v) ==
  CASE v.type = "string" -> v.chars # <<>>
    [] v.type = "number" -> v.num # 0
    [] v.type = "boolean" -> v.bool
    [] v.type = "object" -> TRUE
    [] OTHER -> FALSE

\* s.slice(from, to) with 0 <= from <= to <= s.length
Slice(s, from, to) == SubSeq(s, from + 1, to)
\* '*'.repeat(n)
Repeat(c, n) == [i \in 1..n |-> c]

\* the decimal digits of a natural number, as template literals print it
RECURSIVE DecChars(_)
DecChars(n) == IF n < 10 THEN <<DigitSeq[n + 1]>> ELSE DecChars(n \div 10) \o <<DigitSeq[(n % 10) + 1]>>

\* the leftmost offset at or after s where the items match, -1 when none
FirstMatch(items, text, s) ==
  LET starts == {k \in s..Len(text) : MatchEnd(items, text, k) # -1}
  IN  IF starts = {} THEN -1 ELSE Min(starts)

\* regex.exec(text) / regex.test(text): the leftmost match at or after the
\* cursor (offset 0 for a regex without /g), and the cursor afterwards
Exec(regex, text, lastIndex) ==
  LET s == FirstMatch(regex.items, text, IF regex.global THEN lastIndex ELSE 0)
  IN  IF s = -1
      THEN [found |-> FALSE, index |-> 0, end |-> 0, lastIndex |-> IF regex.global THEN 0 ELSE lastIndex]
      ELSE LET e == MatchEnd(regex.items, text, s)
           IN  [found |-> TRUE, index |-> s, end |-> e, lastIndex |-> IF regex.global THEN e ELSE lastIndex]

\* s.indexOf(v), -1 when v does not occur in s
IndexOf(s, v) ==
  LET at == {k \in 0..(Len(s) - Len(v)) : Slice(s, k, k + Len(v)) = v}
  IN  IF at = {} THEN -1 ELSE Min(at)

\* s.replace(v, r) with a string v: the first occurrence only
ReplaceString(s, v, r) ==
  LET k == IndexOf(s, v)
  IN  IF k = -1 THEN s ELSE Slice(s, 0, k) \o r \o Slice(s, k + Len(v), Len(s))

\* the replacement callback of redact
Mask(match) ==
  IF Len(match) < 12 THEN match
  ELSE IF Len(match) > 12
       THEN LET stars == IF Len(match) - 8 < 16 THEN Len(match) - 8 ELSE 16
            IN  Slice(match, 0, 4) \o Repeat("*", stars) \o Slice(match, Len(match) - 4, Len(match))
       ELSE Repeat("*", Len(match))

RECURSIVE ReplaceFrom(_, _, _)
\* s.replace(regex, Mask) from offset `from` on: every match of a /g regex,
\* left to right and not overlapping (an empty match moves on by one
\* character); only the first match of a regex without /g
ReplaceFrom(regex, s, from) ==
  LET m == Exec([regex EXCEPT !.global = TRUE], s, from)
  IN  IF from > Len(s) \/ ~m.found THEN Slice(s, from, Len(s))
      ELSE LET out == Slice(s, from, m.index) \o Mask(Slice(s, m.index, m.end))
           IN  IF ~regex.global THEN out \o Slice(s, m.end, Len(s))
               ELSE IF m.end > m.index THEN out \o ReplaceFrom(regex, s, m.end)
               ELSE IF m.end < Len(s) THEN out \o <<s[m.end + 1]>> \o ReplaceFrom(regex, s, m.end + 1)
               ELSE out

\* ------------------------------------------------------------------------
\* LeakDetector.scan
\* ------------------------------------------------------------------------
\* { ...std, ...context }: a key of context replaces the same key of std
Spread(std, context) ==
  [k \in DOMAIN std \cup DOMAIN context |-> IF k \in DOMAIN context THEN context[k] ELSE std[k]]

\* the preview template of a match
Preview(value) ==
  IF Len(value) > 12
  THEN Slice(value, 0, 4) \o <<".", ".", ".", "[", "R", "E", "D", "A", "C", "T", "E", "D", " ">> \o DecChars(Len(value) - 8) \o <<" ", "c", "h", "a", "r", "s", "]", ".", ".", ".">>
       \o Slice(value, Len(value) - 4, Len(value))
  ELSE <<"[", "R", "E", "D", "A", "C", "T", "E", "D", "]">>

\* the object pushed for one raw hit
MatchObject(pattern, index, value, scanPoint, now, context) ==
  Spread([pattern |-> pattern.name, severity |-> pattern.severity, position |-> index,
          length |-> Len(value), preview |-> Preview(value), scanPoint |-> scanPoint,
          timestamp |-> now],
         context)

\* `[LEAK_REDACTED:${pattern.name}]`
Placeholder(pattern) == <<"[", "L", "E", "A", "K", "_", "R", "E", "D", "A", "C", "T", "E", "D", ":">> \o pattern.name \o <<"]">>

\* the noise floor of the exec loop: hits it rejects are skipped
TooShort(value) == Len(value) < 12

RECURSIVE ExecLoop(_, _, _, _, _)
\* the while loop of scan for pattern k, entered with its cursor at
\* lastIndex; acc carries the hits pushed so far (the pattern, match.index
\* and match[0] of each), redacted, and the cursors of the patterns
ExecLoop(pattern, k, text, lastIndex, acc) ==
  LET m == Exec(pattern.regex, text, lastIndex)
  IN  IF ~m.found THEN [acc EXCEPT !.cursors[k] = m.lastIndex]
      ELSE LET value == Slice(text, m.index, m.end)
           IN  IF TooShort(value)
               THEN ExecLoop(pattern, k, text, m.lastIndex, acc)
               ELSE ExecLoop(pattern, k, text, m.lastIndex,
                      [acc EXCEPT
                         !.hits = Append(acc.hits, [pattern |-> pattern, index |-> m.index, value |-> value]),
                         !.redacted = ReplaceString(acc.redacted, value, Placeholder(pattern))])

RECURSIVE ScanPatternsNoReset(_, _, _, _)
\* a variant of ScanPatterns without `pattern.regex.lastIndex = 0`: every
\* pattern's loop starts at the cursor the pattern was left with
ScanPatternsNoReset(ps, k, text, cursors) ==
  IF k = 0 THEN [hits |-> <<>>, redacted |-> text, cursors |-> cursors]
  ELSE ExecLoop(ps[k], k, text, cursors[k], ScanPatternsNoReset(ps, k - 1, text, cursors))

RECURSIVE ScanPatterns(_, _, _, _)
\* the for loop of scan over the patterns up to index k; every pattern's
\* cursor is set to 0 before its loop
ScanPatterns(ps, k, text, cursors) ==
  IF k = 0 THEN [hits |-> <<>>, redacted |-> text, cursors |-> cursors]
  ELSE ExecLoop(ps[k], k, text, 0, ScanPatterns(ps, k - 1, text, cursors))

\* the matches array after the loops: one object per hit, in push order
Matches(hits, scanPoint, now, context) ==
  [i \in DOMAIN hits |->
     MatchObject(hits[i].pattern, hits[i].index, hits[i].value, scanPoint, now, context)]

\* matches.filter((m, i, arr) => arr.findIndex(same pattern and position) === i)
Dedup(matches) ==
  LET isFirst(i) == \A j \in 1..(i - 1) :
                      ~(matches[j].pattern = matches[i].pattern /\ matches[j].position = matches[i].position)
      kept == SelectSeq([i \in DOMAIN matches |-> i], isFirst)
  IN  [n \in DOMAIN kept |-> matches[kept[n]]]

\* a variant of Distinct that keeps every entry (a summary built from
\* unique.map(...) without the Set)
DistinctKeepAll(xs) == xs

RECURSIVE Distinct(_)
\* [...new Set(xs)]: each value once, in order of first appearance
Distinct(xs) ==
  IF xs = <<>> THEN <<>>
  ELSE LET front == Distinct(SubSeq(xs, 1, Len(xs) - 1))
           last == xs[Len(xs)]
       IN  IF \E i \in DOMAIN front : front[i] = last THEN front ELSE Append(front, last)

\* the summary template: its interpolated values (the count, the scan
\* point, the joined severities and the joined types)
Summary(unique, scanPoint) ==
  IF Len(unique) > 0
  THEN [type |-> "string", count |-> Len(unique), scanPoint |-> scanPoint,
        severities |-> Distinct([i \in DOMAIN unique |-> unique[i].severity]),
        types |-> Distinct([i \in DOMAIN unique |-> unique[i].pattern])]
  ELSE Null

\* a variant of NoOpResult that returns the empty string as redacted
NoOpResultEmpty(text) == [leaked |-> FALSE, matches |-> <<>>, redacted |-> Str(<<>>), summary |-> Null]

\* what scan returns for an input that is not a non-empty string
NoOpResult(text) == [leaked |-> FALSE, matches |-> <<>>, redacted |-> text, summary |-> Null]

\* the guard of the three operations: text is a non-empty string
IsText(text) == Truthy(text) /\ text.type = "string"

\* the loops of scan over a text (nothing to do for any other value)
ScanLoops(this, text, cursors) ==
  IF IsText(text) THEN ScanPatterns(this.patterns, Len(this.patterns), text.chars, cursors)
  ELSE [hits |-> <<>>, redacted |-> <<>>, cursors |-> cursors]

\* what scan returns once its loops have run
ScanReturn(found, text, scanPoint, now, context) ==
  IF ~IsText(text) THEN NoOpResult(text)
  ELSE LET unique == Dedup(Matches(found.hits, scanPoint, now, context))
       IN  [leaked |-> Len(unique) > 0, matches |-> unique, redacted |-> Str(found.redacted),
            summary |-> Summary(unique, scanPoint)]

\* scan(text, scanPoint, context) on the detector this, at time now: the
\* object returned and the cursors left in the patterns
scan(this, text, scanPoint, now, context, cursors) ==
  LET found == ScanLoops(this, text, cursors)
  IN  [value |-> ScanReturn(found, text, scanPoint, now, context), cursors |-> found.cursors]

\* ------------------------------------------------------------------------
\* LeakDetector.hasLeak and LeakDetector.redact
\* ------------------------------------------------------------------------
RECURSIVE TestPatterns(_, _, _, _)
\* the for loop of hasLeak from pattern k on: the value returned and the
\* cursors the loop leaves behind
TestPatterns(ps, k, text, cursors) ==
  IF k > Len(ps) THEN [value |-> FALSE, cursors |-> cursors]
  ELSE LET m == Exec(ps[k].regex, text, 0)
           after == [cursors EXCEPT ![k] = m.lastIndex]
       IN  IF m.found THEN [value |-> TRUE, cursors |-> after]
           ELSE TestPatterns(ps, k + 1, text, after)

hasLeak(this, text, cursors) ==
  IF ~IsText(text) THEN [value |-> FALSE, cursors |-> cursors]
  ELSE TestPatterns(this.patterns, 1, text.chars, cursors)

RECURSIVE RedactPatterns(_, _, _)
\* the for loop of redact over the patterns up to index k: each pattern
\* rewrites the result of the patterns before it
RedactPatterns(ps, k, text) ==
  IF k = 0 THEN text
  ELSE ReplaceFrom(ps[k].regex, RedactPatterns(ps, k - 1, text), 0)

\* redact(text): the value returned and the cursors left in the patterns
\* (String.prototype.replace leaves the cursor of a /g regex at 0)
redact(this, text, cursors) ==
  IF ~IsText(text) THEN [value |-> text, cursors |-> cursors]
  ELSE [value |-> Str(RedactPatterns(this.patterns, Len(this.patterns), text.chars)),
        cursors |-> [k \in DOMAIN cursors |-> 0]]

\* ------------------------------------------------------------------------
\* Inputs
\* ------------------------------------------------------------------------
\* one literal of each built-in rule's shape, by rule index
Synthetic == <<
  <<"s", "k", "-", "o", "r", "-", "v", "1", "-">> \o Repeat("a", 64),
  <<"s", "k", "-", "a", "n", "t", "-">> \o Repeat("A", 80),
  <<"p", "p", "l", "x", "-">> \o Repeat("p", 30),
  <<"x", "a", "i", "-">> \o Repeat("x", 20),
  <<"r", "8", "_">> \o Repeat("r", 36),
  <<"s", "k", "-", "p", "r", "o", "j", "-">> \o Repeat("Z", 48),
  Repeat("0", 32) \o <<" ", "e", "l", "e", "v", "e", "n", "l", "a", "b", "s">>,
  <<"r", "e", "_">> \o Repeat("q", 20),
  <<"1", "2", "3", "4", "5", "6", "7", "8", ":">> \o Repeat("t", 35),
  <<"s", "k", "_", "l", "i", "v", "e", "_">> \o Repeat("5", 20),
  <<"y", "a", "2", "9", ".">> \o Repeat("g", 50),
  <<"1", "/", "/">> \o Repeat("h", 40),
  <<"g", "h", "p", "_">> \o Repeat("G", 36),
  <<"t", "s", "k", "e", "y", "-", "a", "b", "c", "d", "-", "e", "f", "g", "h">>,
  <<"B", "e", "a", "r", "e", "r", " ">> \o Repeat("b", 20),
  <<"B", "a", "s", "i", "c", " ">> \o Repeat("B", 20),
  <<"a", "p", "i", "_", "k", "e", "y", "=">> \o Repeat("k", 16),
  <<"-", "-", "-", "-", "-", "B", "E", "G", "I", "N", " ", "R", "S", "A", " ", "P", "R", "I", "V", "A", "T", "E", " ", "K", "E", "Y", "-", "-", "-", "-", "-">>,
  <<"A", "G", "E", "-", "S", "E", "C", "R", "E", "T", "-", "K", "E", "Y", "-">> \o Repeat("Q", 59),
  <<"m", "o", "n", "g", "o", "d", "b", ":", "/", "/", "u", "s", "e", "r", ":", "p", "a", "s", "s", "@", "h", "o", "s", "t", ":", "2", "7", "0", "1", "7", "/", "d", "b">>,
  <<"p", "a", "s", "s", "w", "o", "r", "d", "=", "h", "u", "n", "t", "e", "r", "2", "h", "u", "n", "t", "e", "r", "2">>,
  <<"t", "o", "k", "e", "n", "=">> \o Repeat("s", 16),
  <<"A", "B", "C", "D", "=", "0", "1", "2", "3", "4", "5", "6", "7", "8", "9">>,
  <<"'">> \o Repeat("f", 32) \o <<"'">>
>>

\* texts of the test suite and of the README, and texts around the noise
\* floor, the mask and rules that meet in one line
Crafted == {
  <<"k", "e", "y", "=", "a", "b", "c", "1", "2", "3">>,
  <<"N", "o", "r", "m", "a", "l", " ", "t", "e", "x", "t", " ", "h", "e", "r", "e">>,
  <<"t", "s", "k", "e", "y", "-", "a", "-", "b">>,
  <<"p", "w", "d", "=", "1", "2", "3", "4", "5", "6", "7", "8">>,
  <<"a", "p", "i", "_", "s", "e", "c", "r", "e", "t", "=">> \o Repeat("k", 16),
  <<"p", "w", "d", "=", "1", "2", "3", "4", "5", "6", "7", "8", " ", "a", "p", "i", "_", "s", "e", "c", "r", "e", "t", "=">> \o Repeat("k", 16),
  <<"C", "o", "n", "f", "i", "g", " ", "u", "s", "e", "s", " ">> \o Synthetic[1] \o <<" ", "f", "o", "r", " ", "O", "p", "e", "n", "R", "o", "u", "t", "e", "r">>,
  Repeat("0", 32) \o <<" ", "e", "l", "e", "v", "e", "n", "l", "a", "b", "s", " ">> \o Repeat("0", 32),
  <<"D", "A", "T", "A", "B", "A", "S", "E", "_", "U", "R", "L", "=", "p", "o", "s", "t", "g", "r", "e", "s", ":", "/", "/", "u", "s", "e", "r", ":", "p", "w", "@", "d", "b", ".", "e", "x", "a", "m", "p", "l", "e", ".", "c", "o", "m", "/", "a", "p", "p">>,
  <<"r", "e", "d", "i", "s", ":", "/", "/", "p", "a", "s", "s", "w", "o", "r", "d", " ", "=", "a", "b", "c", "d", "e", "f", "g", "h">>,
  <<"a", "p", "i", "_", "k", "e", "y", "=", "s", "h", "o", "r", "t", ",", " ", "t", "o", "k", "e", "n", "=">> \o Repeat("s", 16),
  <<"A", "B", "C", "D", "=", "0", "1", "2", "3", "4", "5", "6", "7", "8", "9", "\n", "P", "A", "T", "H", "_", "T", "O", "=", "a", "b", "c", "d", "e", "f", "g", "h", "i", "j", "\n">>
}

\* the pieces short texts are put together from
Parts == {<<"p", "w", "d", "=">>, <<"a", "b", "c", "d", "e", "f", "g", "h">>, <<"*", "*", "*", "*", "*">>, <<" ">>}

RECURSIVE Copies(_, _, _)
\* n copies of lit with sep between them
Copies(lit, n, sep) == IF n = 1 THEN lit ELSE Copies(lit, n - 1, sep) \o sep \o lit

RECURSIVE Composed(_)
\* the concatenations of at most n parts
Composed(n) ==
  IF n = 0 THEN {<<>>}
  ELSE LET shorter == Composed(n - 1) IN shorter \cup {s \o p : s \in shorter, p \in Parts}

Texts ==
  {Copies(Synthetic[k], n, <<" ">>) : k \in DOMAIN Synthetic, n \in 1..MaxCopies}
  \cup Crafted \cup Composed(MaxParts)

\* what a caller may pass as text
Inputs == {Str(t) : t \in Texts} \cup {Null, Undefined, Num(0), Num(42), Bool(FALSE), Bool(TRUE), Obj}

ScanPoints == {"unknown", "test"}
\* context objects: none, a caller's own field, and fields named like the
\* standard ones
NoContext == [k \in {} |-> 0]
Contexts == {NoContext, [agent |-> "bot"], [severity |-> "LOW", position |-> 0, length |-> 1]}
\* new Date().toISOString()
Instants == {"2026-01-01T00:00:00.000Z"}

\* ------------------------------------------------------------------------
\* The state machine: one detector, called by a client
\* ------------------------------------------------------------------------
VARIABLES
  customPatterns, \* the rules the constructor was given
  detector,   \* the LeakDetector: its cursors (regex.lastIndex, by pattern)
  text,       \* the value the client holds
  op,         \* the last operation called ("new" after construction)
  arg,        \* its text argument
  opts,       \* its scanPoint and context (scan only)
  result,     \* the value it returned
  entry,      \* the cursors the last call found in the patterns
  pc,         \* "idle" between calls, else the place of the running scan
  frame       \* the locals of the running scan

vars == <<customPatterns, detector, text, op, arg, opts, result, entry, pc, frame>>

this == LeakDetector(customPatterns)
NoOpts == [scanPoint |-> "unknown", context |-> NoContext]
\* no scan is running
NoFrame == [k |-> 0, hits |-> <<>>, redacted |-> <<>>, match |-> Null]

\* new LeakDetector(): the built-in rules alone
Init ==
  /\ customPatterns = <<>>
  /\ detector = [cursors |-> [k \in 1..NumRules |-> 0]]
  /\ text \in Inputs
  /\ op = "new"
  /\ arg = Undefined
  /\ opts = NoOpts
  /\ result = Undefined
  /\ entry = [k \in 1..NumRules |-> 0]
  /\ pc = "idle"
  /\ frame = NoFrame

\* detector.scan(text, scanPoint, context): scan(this, text, scanPoint, now,
\* context, cursors), its loops evaluated once for all the scan points and
\* contexts
Scan ==
  /\ pc = "idle"
  /\ \E found \in {ScanLoops(this, text, detector.cursors)} :
      \E scanPoint \in ScanPoints, context \in Contexts, now \in Instants :
        /\ op' = "scan"
        /\ arg' = text
        /\ opts' = [scanPoint |-> scanPoint, context |-> context]
        /\ result' = ScanReturn(found, text, scanPoint, now, context)
        /\ detector' = [cursors |-> found.cursors]
        /\ entry' = detector.cursors
        /\ UNCHANGED <<customPatterns, text, pc, frame>>

\* detector.hasLeak(text)
HasLeak ==
  /\ pc = "idle"
  /\ LET r == hasLeak(this, text, detector.cursors)
     IN  /\ op' = "hasLeak"
         /\ arg' = text
         /\ opts' = NoOpts
         /\ result' = r.value
         /\ detector' = [cursors |-> r.cursors]
         /\ entry' = detector.cursors
         /\ UNCHANGED <<customPatterns, text, pc, frame>>

\* detector.redact(t), for the client's text or for what the last redact returned
Redact ==
  /\ pc = "idle"
  /\ \E t \in {text} \cup (IF op = "redact" THEN {result} ELSE {}) :
       LET r == redact(this, t, detector.cursors)
       IN  /\ op' = "redact"
           /\ arg' = t
           /\ opts' = NoOpts
           /\ result' = r.value
           /\ detector' = [cursors |-> r.cursors]
           /\ entry' = detector.cursors
           /\ UNCHANGED <<customPatterns, text, pc, frame>>

Next == Scan \/ HasLeak \/ Redact

Spec == Init /\ [][Next]_vars

\* ------------------------------------------------------------------------
\* Properties
\* ------------------------------------------------------------------------
\* what the loops of scan find in the argument of the last call
ArgHits == ScanLoops(this, arg, detector.cursors).hits

\* v occurs in s
Occurs(s, v) == IndexOf(s, v) # -1

\* C1: hasLeak(text) returns true exactly when scan(text).leaked is true (the
\* quick check applies the 12-character noise floor of scan).
C1_HasLeakAgreesWithScan ==
  (op = "hasLeak" /\ IsText(arg)) => (result = (Len(ArgHits) > 0))

\* C2: when the text holds exactly one qualifying match (a rule hit of at
\* least 12 characters), the output of redact does not contain the matched
\* literal.
C2_RedactRemovesLiteral ==
  (op = "redact" /\ IsText(arg) /\ Len(ArgHits) = 1) => ~Occurs(result.chars, ArgHits[1].value)

\* C3: every Match returned by scan has length >= 12, equal to the length of
\* the substring its rule matched at its position.
C3_MatchLengthAtLeastFloor ==
  op = "scan" =>
    \A i \in DOMAIN result.matches :
      /\ result.matches[i].length >= 12
      /\ \E h \in DOMAIN ArgHits :
           /\ ArgHits[h].pattern.name = result.matches[i].pattern
           /\ ArgHits[h].index = result.matches[i].position
           /\ Len(ArgHits[h].value) = result.matches[i].length

\* C4: scanning one synthetic literal of a built-in rule's shape, at least 12
\* characters long, yields leaked = true and exactly one match, which carries
\* the rule's name and its declared severity.
C4_SyntheticLiteralOneMatch ==
  \A k \in DOMAIN Synthetic :
    (op = "scan" /\ arg = Str(Synthetic[k]) /\ opts.context = NoContext) =>
      /\ result.leaked
      /\ Len(result.matches) = 1
      /\ result.matches[1].pattern = BuiltIn[k].name
      /\ result.matches[1].severity = BuiltIn[k].severity

RECURSIVE Replaced(_, _, _)
\* the matches s.replace(regex, callback) hands to its callback, from
\* offset `from` on
Replaced(regex, s, from) ==
  LET m == Exec([regex EXCEPT !.global = TRUE], s, from)
  IN  IF from > Len(s) \/ ~m.found THEN <<>>
      ELSE <<Slice(s, m.index, m.end)>> \o
           (IF ~regex.global THEN <<>>
            ELSE Replaced(regex, s, IF m.end > m.index THEN m.end ELSE m.end + 1))

RECURSIVE RedactedValues(_, _, _)
\* the values the patterns up to index k match while redact rewrites text,
\* with the text after pattern k
RedactedValues(ps, k, s) ==
  IF k = 0 THEN [text |-> s, values |-> <<>>]
  ELSE LET before == RedactedValues(ps, k - 1, s)
       IN  [text |-> ReplaceFrom(ps[k].regex, before.text, 0),
            values |-> before.values \o Replaced(ps[k].regex, before.text, 0)]

\* C5: every value longer than 12 characters that a rule matches appears in
\* the output of redact as its first 4 characters, min(length - 8, 16)
\* asterisks and its last 4 characters.
C5_RedactPreservesEnds ==
  (op = "redact" /\ IsText(arg)) =>
    LET values == RedactedValues(this.patterns, NumRules, arg.chars).values
    IN  \A i \in DOMAIN values :
          LET v == values[i]
              n == Len(v)
          IN  n > 12 =>
                Occurs(result.chars,
                       SubSeq(v, 1, 4) \o [j \in 1..(IF n - 8 < 16 THEN n - 8 ELSE 16) |-> "*"]
                         \o SubSeq(v, n - 3, n))

\* C6: redact is idempotent: redact applied to what redact returned returns
\* it unchanged.
C6_RedactIdempotent ==
  op = "redact" => redact(this, result, detector.cursors).value = result

\* C7: the matches of scan hold no two entries with the same pattern and
\* position, and a literal that a rule hits at two offsets yields a match of
\* that rule at each of the two offsets.
C7_UniquePatternPosition ==
  op = "scan" =>
    /\ \A i, j \in DOMAIN result.matches :
         (result.matches[i].pattern = result.matches[j].pattern
          /\ result.matches[i].position = result.matches[j].position) => i = j
    /\ \A g, h \in DOMAIN ArgHits :
         (ArgHits[g].pattern = ArgHits[h].pattern /\ ArgHits[g].value = ArgHits[h].value
          /\ ArgHits[g].index < ArgHits[h].index) =>
           \E i, j \in DOMAIN result.matches :
             /\ i # j
             /\ result.matches[i].pattern = ArgHits[g].pattern.name
             /\ result.matches[j].pattern = ArgHits[g].pattern.name
             /\ result.matches[i].position = ArgHits[g].index
             /\ result.matches[j].position = ArgHits[h].index

\* C8: on an input that is not a non-empty string each operation returns its
\* no-op result: scan the object with leaked = false, no matches, a null
\* summary and the input itself as redacted; hasLeak false; redact the input.
C8_NoOpOnNonText ==
  ~IsText(arg) =>
    /\ op = "scan" => result = [leaked |-> FALSE, matches |-> <<>>, redacted |-> arg, summary |-> [type |-> "null"]]
    /\ op = "hasLeak" => result = FALSE
    /\ op = "redact" => result = arg

\* scan(null) has returned, with null as redacted
C8_Witness ==
  /\ op = "scan"
  /\ arg = Null
  /\ result.redacted = Null

\* the entries of s are pairwise different
NoRepeat(s) == \A i, j \in DOMAIN s : s[i] = s[j] => i = j
\* the index of the first entry of matches with severity `sev`
FirstWith(matches, sev) == Min({i \in DOMAIN matches : matches[i].severity = sev})

\* C9: in every result of scan, leaked is true iff matches is non-empty and
\* summary is null iff matches is empty; a summary states the number of
\* matches and the severities present, each once, in order of first
\* appearance.
C9_LeakedAndSummary ==
  op = "scan" =>
    /\ result.leaked <=> Len(result.matches) > 0
    /\ result.summary.type = "null" <=> Len(result.matches) = 0
    /\ result.summary.type # "null" =>
         LET sevs == result.summary.severities
         IN  /\ result.summary.count = Len(result.matches)
             /\ NoRepeat(sevs)
             /\ Range(sevs) = {result.matches[i].severity : i \in DOMAIN result.matches}
             /\ \A i, j \in DOMAIN sevs :
                  i < j => FirstWith(result.matches, sevs[i]) < FirstWith(result.matches, sevs[j])

\* a scan has returned more matches than severities, of two severities or more
C9_Witness ==
  /\ op = "scan"
  /\ result.leaked
  /\ Len(result.summary.severities) >= 2
  /\ Len(result.matches) > Len(result.summary.severities)

\* C10: every Match carries the values the engine computed for the standard
\* fields, whatever the context holds.
C10_ContextKeepsStandardFields ==
  op = "scan" =>
    \A i \in DOMAIN result.matches :
      \E h \in DOMAIN ArgHits :
        /\ result.matches[i].pattern = ArgHits[h].pattern.name
        /\ result.matches[i].severity = ArgHits[h].pattern.severity
        /\ result.matches[i].position = ArgHits[h].index
        /\ result.matches[i].length = Len(ArgHits[h].value)
        /\ result.matches[i].preview = Preview(ArgHits[h].value)
        /\ result.matches[i].scanPoint = opts.scanPoint
        /\ result.matches[i].timestamp \in Instants


\* the offsets at which v occurs in s
Occurrences(s, v) == {k \in 0..(Len(s) - Len(v)) : Slice(s, k, k + Len(v)) = v}

\* C11: in the redacted output of scan no occurrence of a matched literal
\* remains: for every raw rule hit of at least 12 characters whose literal
\* occurs several times in the text, the literal does not occur in
\* scan(text).redacted.
C11_ScanRedactsEveryOccurrence ==
  (op = "scan" /\ IsText(arg)) =>
    \A h \in DOMAIN ArgHits :
      Cardinality(Occurrences(arg.chars, ArgHits[h].value)) >= 2 =>
        ~Occurs(result.redacted.chars, ArgHits[h].value)

\* ------------------------------------------------------------------------
\* scan step by step, on a detector constructed with custom rules
\* ------------------------------------------------------------------------
\* a rule whose regex literal carries no g flag
NoG(rule) == [rule EXCEPT !.regex.global = FALSE]

\* rules a caller may pass to the constructor
CustomRules == {
  \* /tok-[a-z0-9]{8,}/g
  Rule(<<"i", "n", "t", "e", "r", "n", "a", "l", "_", "t", "o", "k", "e", "n">>, Lit(<<"t", "o", "k", "-">>) \o Cls(Lower \cup Digit, 8, -1), "HIGH"),
  \* /tkt-[0-9]+/
  NoG(Rule(<<"t", "i", "c", "k", "e", "t", "_", "i", "d">>, Lit(<<"t", "k", "t", "-">>) \o Cls(Digit, 1, -1), "LOW")),
  \* /\s*/g
  Rule(<<"b", "l", "a", "n", "k">>, Cls(Space, 0, -1), "LOW")
}
\* customPatterns: no rule, or one of them
CustomTables == {<<>>} \cup {<<r>> : r \in CustomRules}

\* the texts scanned step by step
LoopTexts == {
  <<"n", "o", "t", "h", "i", "n", "g", " ", "h", "e", "r", "e">>,
  <<"t", "k", "t", "-", "4", "2", " ", "c", "l", "o", "s", "e", "d">>,
  <<"t", "o", "k", "-", "a", "b", "c", "d", "e", "f", "g", "h", "1", "2">>,
  <<"p", "w", "d", "=", "1", "2", "3", "4", "5", "6", "7", "8", " ", "t", "k", "t", "-", "7">>
}
LoopInputs == {Str(t) : t \in LoopTexts} \cup {Null}

\* new LeakDetector(customPatterns)
InitLoop ==
  /\ customPatterns \in CustomTables
  /\ detector = [cursors |-> [k \in 1..(NumRules + Len(customPatterns)) |-> 0]]
  /\ text \in LoopInputs
  /\ op = "new"
  /\ arg = Undefined
  /\ opts = NoOpts
  /\ result = Undefined
  /\ entry = [k \in 1..(NumRules + Len(customPatterns)) |-> 0]
  /\ pc = "idle"
  /\ frame = NoFrame

\* the call of scan and its guard: the no-op result for what is not a
\* non-empty string, else matches = [] and redacted = text
ScanEnter ==
  /\ pc = "idle"
  /\ \E scanPoint \in ScanPoints, context \in Contexts :
       /\ op' = "scan"
       /\ arg' = text
       /\ opts' = [scanPoint |-> scanPoint, context |-> context]
  /\ entry' = detector.cursors
  /\ IF IsText(text)
     THEN /\ pc' = "for"
          /\ frame' = [NoFrame EXCEPT !.k = 1, !.redacted = text.chars]
          /\ result' = Undefined
     ELSE /\ pc' = "idle"
          /\ frame' = NoFrame
          /\ result' = NoOpResult(text)
  /\ UNCHANGED <<customPatterns, detector, text>>

\* the head of the for loop: the next pattern, its lastIndex set to 0
ForPattern ==
  /\ pc = "for"
  /\ frame.k <= Len(this.patterns)
  /\ detector' = [cursors |-> [detector.cursors EXCEPT ![frame.k] = 0]]
  /\ pc' = "while"
  /\ UNCHANGED <<customPatterns, text, op, arg, opts, result, entry, frame>>

\* the condition of the while loop: pattern.regex.exec(text)
WhileTest ==
  /\ pc = "while"
  /\ LET m == Exec(this.patterns[frame.k].regex, arg.chars, detector.cursors[frame.k])
     IN  /\ detector' = [cursors |-> [detector.cursors EXCEPT ![frame.k] = m.lastIndex]]
         /\ IF m.found
            THEN /\ pc' = "body"
                 /\ frame' = [frame EXCEPT !.match = m]
            ELSE /\ pc' = "for"
                 /\ frame' = [frame EXCEPT !.k = @ + 1]
  /\ UNCHANGED <<customPatterns, text, op, arg, opts, result, entry>>

\* the body of the while loop: a short value is skipped, any other is
\* pushed and replaced in redacted; then the condition again
WhileBody ==
  /\ pc = "body"
  /\ LET pattern == this.patterns[frame.k]
         value == Slice(arg.chars, frame.match.index, frame.match.end)
     IN  frame' = IF TooShort(value)
                  THEN [frame EXCEPT !.match = Null]
                  ELSE [frame EXCEPT
                          !.match = Null,
                          !.hits = Append(@, [pattern |-> pattern, index |-> frame.match.index, value |-> value]),
                          !.redacted = ReplaceString(@, value, Placeholder(pattern))]
  /\ pc' = "while"
  /\ UNCHANGED <<customPatterns, detector, text, op, arg, opts, result, entry>>

\* after the last pattern: dedup, summary and the object returned
ScanReturns ==
  /\ pc = "for"
  /\ frame.k > Len(this.patterns)
  /\ \E now \in Instants :
       result' = ScanReturn([hits |-> frame.hits, redacted |-> frame.redacted],
                            arg, opts.scanPoint, now, opts.context)
  /\ pc' = "idle"
  /\ frame' = NoFrame
  /\ UNCHANGED <<customPatterns, detector, text, op, arg, opts, entry>>

\* a step of the running call
Running == ForPattern \/ WhileTest \/ WhileBody \/ ScanReturns

NextLoop == ScanEnter \/ Running \/ HasLeak \/ Redact

\* what a step of the running call does to pc: every step of Running moves
\* pc, and pc moves from a value other than "idle" by a step of Running only
Continue == pc # "idle" /\ pc' \in {"idle", "for", "while", "body"} \ {pc}

\* a call that has begun keeps running (JavaScript runs it to completion):
\* under NextLoop, WF_pc(Continue) is WF_vars(Running)
SpecLoop == InitLoop /\ [][NextLoop]_vars /\ WF_pc(Continue)

\* C12: scan, hasLeak and redact are total: on every detector, one with
\* custom rules of any pattern included, a call that has begun returns.
C12_CallsReturn == (pc # "idle") ~> (pc = "idle")

\* the cursors of a freshly constructed detector with the same rules
Fresh == [k \in DOMAIN detector.cursors |-> 0]

\* a result of scan, its timestamps set aside
Timeless(r) ==
  [r EXCEPT !.matches = [i \in DOMAIN r.matches |-> [r.matches[i] EXCEPT !.timestamp = ""]]]

\* C13: calls are stateless with respect to each other: whatever cursors the
\* calls before it left in the rules, a call returns what the same call
\* returns on a freshly constructed detector (timestamps aside).
C13_CallsAreStateless ==
  /\ op = "scan" =>
       \A now \in Instants :
         Timeless(result) = Timeless(scan(this, arg, opts.scanPoint, now, opts.context, Fresh).value)
  /\ op = "hasLeak" => result = hasLeak(this, arg, Fresh).value
  /\ op = "redact" => result = redact(this, arg, Fresh).value

\* a scan that found a rule's cursor non-zero (an early return of hasLeak
\* left it there) has returned matches
C13_Witness ==
  /\ op = "scan"
  /\ \E k \in DOMAIN entry : entry[k] # 0
  /\ result.leaked
====
